---- MODULE Spec2Model ----
(***************************************************************************)
(* The Qwen QR-code OAuth login of pkg/auth/qwen_oauth.go as a state       *)
(* machine: LoginQwenQRCode generates state and PKCE verifier, requests a  *)
(* grant, then alternates between the ticker and the deadline in a         *)
(* for/select loop; each tick runs checkQwenScanStatus, which on           *)
(* AUTHORIZED runs exchangeQwenCodeForToken.  The authorization server is  *)
(* the environment: every response it can give is drawn from a small set.  *)
(***************************************************************************)
EXTENDS Integers, Sequences, FiniteSets, TLC

\* ------------------------------------------------------------------------
\* Bounds of the model
\* ------------------------------------------------------------------------

\* The overall deadline in seconds (10 * time.Minute in the source, scaled
\* down so that the deadline is reached after a few ticker periods).
DeadlineSeconds == 15

\* How many ticker periods past the deadline the model follows the clock.
ExtraTicks == 1

\* How many inbound Telegram messages are handled.
MaxInbound == 2

\* How many pieces (plain text, code blocks, code spans) a message content
\* holds.
MaxPieces == 3

\* ------------------------------------------------------------------------
\* Program constants
\* ------------------------------------------------------------------------

\* len(dots) and len(emotes) of the "Thinking" animation.
Frames == 3

\* time.NewTicker(3 * time.Second)
TickSeconds == 3

\* http.Client{Timeout: 30 * time.Second} of getQwenQRCode
GrantTimeoutSeconds == 30

\* http.Get and http.Post use http.DefaultClient, whose Timeout is zero:
\* no timeout.
DefaultClientTimeout == 0

\* http.StatusOK
StatusOK == 200

\* A non-success status of the token endpoint.
StatusServerError == 500

MaxElapsed == (DeadlineSeconds \div TickSeconds) + ExtraTicks

\* ------------------------------------------------------------------------
\* Values
\* ------------------------------------------------------------------------

\* Outcomes of generateQwenState (hex of 32 random bytes).
States == {"s1", "s2"}

\* Outcomes of generateCodeVerifier (base64url of 32 random bytes); the
\* first is the verifier of the PKCE test vector of RFC 7636, appendix B.
Verifiers ==
    {"dBjftJeZ4CVP-mB92K27uhbUJU1p1r_wW1gFWFOEjXk",
     "AAAAAAAAAAAAAAAAAAAAAAAAAAAAAAAAAAAAAAAAAAA"}

\* base64url_nopad(SHA256(verifier)), tabulated for the verifiers above.
S256(verifier) ==
    CASE verifier = "dBjftJeZ4CVP-mB92K27uhbUJU1p1r_wW1gFWFOEjXk"
           -> "E9Melhoa2OwvFrEMTJguCHaoeK1t8URWbuGJSstw-cM"
      [] verifier = "AAAAAAAAAAAAAAAAAAAAAAAAAAAAAAAAAAAAAAAAAAA"
           -> "DwBzhbb51LfusnSGBa_hqYSgo7-j8BTQnip4TOnlzRo"
      [] OTHER -> "?"

\* Authorization codes and tokens the server may issue.
Codes == {"c1"}
AccessTokens == {"t1", "t2"}
RefreshTokens == {"", "r1"}

\* *AuthCredential: nil, or the fields exchangeQwenCodeForToken sets.
\* ExpiresAt is a time in seconds, 0 for the zero time.Time.
NilCred ==
    [nil |-> TRUE, AccessToken |-> "", RefreshToken |-> "", ExpiresAt |-> 0,
     Provider |-> "", AuthMethod |-> "", AccountID |-> ""]

\* ------------------------------------------------------------------------
\* Access tokens as text
\* ------------------------------------------------------------------------

\* The access tokens with more structure than the opaque ones: three
\* dot-separated segments "abc.<payload>.sig" unless said otherwise.
StructuredTokens ==
    {"abc.eyJzdWIiOiJ1MSJ9.sig",      \* payload {"sub":"u1"}
     "abc.eyJzdWIiOiJ1In0.sig",       \* payload {"sub":"u"}, 15 characters
     "abc.eyJzdWIiOiJ1MTIifQ.sig",    \* payload {"sub":"u12"}, 18 characters
     "abc.eyJzdWIiOiJhYmM_In0.sig",   \* payload {"sub":"abc?"}
     "abc.eyJzdWIiOiJ1MSJ9",          \* two segments, payload {"sub":"u1"}
     "abc.eyJzdWIiOjd9.sig",          \* payload {"sub":7}
     "abc.eyJ1aWQiOiJ1MSJ9.sig",      \* payload {"uid":"u1"}
     "abc.eyJzdWIiOiJ1MSI.sig",       \* payload {"sub":"u1" cut short
     "abc.e!Jz.sig",                  \* payload not base64
     "abc.eyJzd.sig",                 \* payload of 5 characters
     "abc..sig"}                      \* empty payload

\* The characters of a string of the model.
Chars(s) ==
    CASE s = "t0" ->
           <<"t", "0">>
      [] s = "t1" ->
           <<"t", "1">>
      [] s = "t2" ->
           <<"t", "2">>
      [] s = "abc.eyJzdWIiOiJ1MSJ9.sig" ->
           <<"a", "b", "c", ".", "e", "y", "J", "z", "d", "W", "I", "i",
             "O", "i", "J", "1", "M", "S", "J", "9", ".", "s", "i", "g">>
      [] s = "abc.eyJzdWIiOiJ1In0.sig" ->
           <<"a", "b", "c", ".", "e", "y", "J", "z", "d", "W", "I", "i",
             "O", "i", "J", "1", "I", "n", "0", ".", "s", "i", "g">>
      [] s = "abc.eyJzdWIiOiJ1MTIifQ.sig" ->
           <<"a", "b", "c", ".", "e", "y", "J", "z", "d", "W", "I", "i",
             "O", "i", "J", "1", "M", "T", "I", "i", "f", "Q", ".", "s",
             "i", "g">>
      [] s = "abc.eyJzdWIiOiJhYmM_In0.sig" ->
           <<"a", "b", "c", ".", "e", "y", "J", "z", "d", "W", "I", "i",
             "O", "i", "J", "h", "Y", "m", "M", "_", "I", "n", "0", ".",
             "s", "i", "g">>
      [] s = "abc.eyJzdWIiOiJ1MSJ9" ->
           <<"a", "b", "c", ".", "e", "y", "J", "z", "d", "W", "I", "i",
             "O", "i", "J", "1", "M", "S", "J", "9">>
      [] s = "abc.eyJzdWIiOjd9.sig" ->
           <<"a", "b", "c", ".", "e", "y", "J", "z", "d", "W", "I", "i",
             "O", "j", "d", "9", ".", "s", "i", "g">>
      [] s = "abc.eyJ1aWQiOiJ1MSJ9.sig" ->
           <<"a", "b", "c", ".", "e", "y", "J", "1", "a", "W", "Q", "i",
             "O", "i", "J", "1", "M", "S", "J", "9", ".", "s", "i", "g">>
      [] s = "abc.eyJzdWIiOiJ1MSI.sig" ->
           <<"a", "b", "c", ".", "e", "y", "J", "z", "d", "W", "I", "i",
             "O", "i", "J", "1", "M", "S", "I", ".", "s", "i", "g">>
      [] s = "abc.e!Jz.sig" ->
           <<"a", "b", "c", ".", "e", "!", "J", "z", ".", "s", "i", "g">>
      [] s = "abc.eyJzd.sig" ->
           <<"a", "b", "c", ".", "e", "y", "J", "z", "d", ".", "s", "i",
             "g">>
      [] s = "abc..sig" ->
           <<"a", "b", "c", ".", ".", "s", "i", "g">>
      [] OTHER -> <<>>

\* The JSON objects among the byte strings the model decodes: the bytes,
\* whether the object has a "sub", whether it is a string, and its value.
JsonObjects ==
    {
     \* {"sub":"u1"}
     [bytes |-> <<123, 34, 115, 117, 98, 34, 58, 34, 117, 49, 34, 125>>,
      hasSub |-> TRUE, subIsString |-> TRUE, sub |-> "u1"],
     \* {"sub":"u"}
     [bytes |-> <<123, 34, 115, 117, 98, 34, 58, 34, 117, 34, 125>>,
      hasSub |-> TRUE, subIsString |-> TRUE, sub |-> "u"],
     \* {"sub":"u12"}
     [bytes |-> <<123, 34, 115, 117, 98, 34, 58, 34, 117, 49, 50, 34, 125>>,
      hasSub |-> TRUE, subIsString |-> TRUE, sub |-> "u12"],
     \* {"sub":"abc?"}
     [bytes |-> <<123, 34, 115, 117, 98, 34, 58, 34, 97, 98, 99, 63, 34, 125>>,
      hasSub |-> TRUE, subIsString |-> TRUE, sub |-> "abc?"],
     \* {"sub":7}
     [bytes |-> <<123, 34, 115, 117, 98, 34, 58, 55, 125>>,
      hasSub |-> TRUE, subIsString |-> FALSE, sub |-> ""],
     \* {"uid":"u1"}
     [bytes |-> <<123, 34, 117, 105, 100, 34, 58, 34, 117, 49, 34, 125>>,
      hasSub |-> FALSE, subIsString |-> FALSE, sub |-> ""]}

\* strings.Split(s, sep) on the characters of s.
RECURSIVE Split(_, _)
Split(s, sep) ==
    IF \E i \in 1..Len(s) : s[i] = sep
    THEN LET i == CHOOSE k \in 1..Len(s) :
                      s[k] = sep /\ \A j \in 1..(k - 1) : s[j] # sep
         IN  <<SubSeq(s, 1, i - 1)>> \o Split(SubSeq(s, i + 1, Len(s)), sep)
    ELSE <<s>>

\* The alphabet of base64.StdEncoding.
StdAlphabet ==
    <<"A", "B", "C", "D", "E", "F", "G", "H", "I", "J", "K", "L", "M",
      "N", "O", "P", "Q", "R", "S", "T", "U", "V", "W", "X", "Y", "Z",
      "a", "b", "c", "d", "e", "f", "g", "h", "i", "j", "k", "l", "m",
      "n", "o", "p", "q", "r", "s", "t", "u", "v", "w", "x", "y", "z",
      "0", "1", "2", "3", "4", "5", "6", "7", "8", "9", "+", "/">>

\* The URL-safe alphabet of base64 (RFC 4648, section 5).
URLAlphabet ==
    <<"A", "B", "C", "D", "E", "F", "G", "H", "I", "J", "K", "L", "M",
      "N", "O", "P", "Q", "R", "S", "T", "U", "V", "W", "X", "Y", "Z",
      "a", "b", "c", "d", "e", "f", "g", "h", "i", "j", "k", "l", "m",
      "n", "o", "p", "q", "r", "s", "t", "u", "v", "w", "x", "y", "z",
      "0", "1", "2", "3", "4", "5", "6", "7", "8", "9", "-", "_">>

InAlphabet(alphabet, c) == \E i \in 1..Len(alphabet) : alphabet[i] = c

\* The 6-bit value of a character of the alphabet.
IndexOf(alphabet, c) == (CHOOSE i \in 1..Len(alphabet) : alphabet[i] = c) - 1

\* The bytes of a run of alphabet characters without padding: four
\* characters give three bytes, a last group of three gives two, of two
\* gives one.
RECURSIVE DecodeQuanta(_, _)
DecodeQuanta(alphabet, s) ==
    IF Len(s) < 2 THEN <<>>
    ELSE LET v(i) == IndexOf(alphabet, s[i])
             b1 == v(1) * 4 + (v(2) \div 16)
         IN  IF Len(s) = 2 THEN <<b1>>
             ELSE LET b2 == (v(2) % 16) * 16 + (v(3) \div 4)
                  IN  IF Len(s) = 3 THEN <<b1, b2>>
                      ELSE <<b1, b2, (v(3) % 4) * 64 + v(4)>>
                           \o DecodeQuanta(alphabet, SubSeq(s, 5, Len(s)))

\* base64.StdEncoding.DecodeString: the standard alphabet, with "="
\* padding to a multiple of four characters.
StdEncoding_DecodeString(s) ==
    LET n == Len(s)
        pad == IF n >= 2 /\ s[n] = "=" /\ s[n - 1] = "=" THEN 2
               ELSE IF n >= 1 /\ s[n] = "=" THEN 1
               ELSE 0
        body == SubSeq(s, 1, n - pad)
    IN  IF \/ n % 4 # 0
           \/ \E i \in 1..Len(body) : ~InAlphabet(StdAlphabet, body[i])
        THEN [err |-> TRUE, bytes |-> <<>>]
        ELSE [err |-> FALSE, bytes |-> DecodeQuanta(StdAlphabet, body)]

\* Decoding of base64url without padding: the URL-safe alphabet, no "=".
RawURLEncoding_DecodeString(s) ==
    IF \/ Len(s) % 4 = 1
       \/ \E i \in 1..Len(s) : ~InAlphabet(URLAlphabet, s[i])
    THEN [err |-> TRUE, bytes |-> <<>>]
    ELSE [err |-> FALSE, bytes |-> DecodeQuanta(URLAlphabet, s)]

\* json.Unmarshal into map[string]interface{}: the bytes that are no JSON
\* object give an error.
json_Unmarshal(bytes) ==
    IF \E d \in JsonObjects : d.bytes = bytes
    THEN [err |-> FALSE, claims |-> CHOOSE d \in JsonObjects : d.bytes = bytes]
    ELSE [err |-> TRUE,
          claims |-> [bytes |-> <<>>, hasSub |-> FALSE, subIsString |-> FALSE,
                      sub |-> ""]]

\* The second segment of the token padded to a multiple of four, as
\* extractQwenAccountID pads it.
PadPayload(payload) ==
    CASE Len(payload) % 4 = 2 -> payload \o <<"=", "=">>
      [] Len(payload) % 4 = 3 -> payload \o <<"=">>
      [] OTHER -> payload

\* extractQwenAccountID: the "sub" of the token's second segment, or "".
extractQwenAccountID(accessToken) ==
    LET parts == Split(Chars(accessToken), ".")
    IN  IF Len(parts) < 2 THEN ""
        ELSE LET decoded == StdEncoding_DecodeString(PadPayload(parts[2]))
                 parsed == json_Unmarshal(decoded.bytes)
             IN  IF decoded.err THEN ""
                 ELSE IF parsed.err THEN ""
                 ELSE IF parsed.claims.hasSub /\ parsed.claims.subIsString
                 THEN parsed.claims.sub
                 ELSE ""

\* ------------------------------------------------------------------------
\* Responses of the authorization server (the environment)
\* ------------------------------------------------------------------------

\* transport: "ok" (a response arrived and its body was read), "error"
\* (client.Do / io.ReadAll failed), "noanswer" (the server never answers).

\* Grant issuance endpoint: JSON {data: {qrCodeUrl, qrCodeId}}.
GrantResponses ==
    {[transport |-> "error", json |-> FALSE, qrCodeId |-> "", qrCodeUrl |-> ""],
     [transport |-> "noanswer", json |-> FALSE, qrCodeId |-> "", qrCodeUrl |-> ""],
     [transport |-> "ok", json |-> FALSE, qrCodeId |-> "", qrCodeUrl |-> ""]}
    \cup
    [transport : {"ok"}, json : {TRUE}, qrCodeId : {"", "q1"}, qrCodeUrl : {"", "u1"}]

\* Grant status endpoint: JSON {data: {status, code}}.
StatusResponses ==
    {[transport |-> "error", json |-> FALSE, status |-> "", code |-> ""],
     [transport |-> "noanswer", json |-> FALSE, status |-> "", code |-> ""],
     [transport |-> "ok", json |-> FALSE, status |-> "", code |-> ""]}
    \cup
    [transport : {"ok"}, json : {TRUE},
     status : {"PENDING", "SCANNED", "EXPIRED", "CANCELED", ""},
     code : {""}]
    \cup
    [transport : {"ok"}, json : {TRUE}, status : {"AUTHORIZED"},
     code : Codes \cup {""}]

\* The token responses that are no JSON, no success or no answer.
FailedTokenResponses ==
    {[transport |-> "error", statusCode |-> StatusOK, json |-> FALSE,
      access_token |-> "", refresh_token |-> "", expires_in |-> 0],
     [transport |-> "noanswer", statusCode |-> StatusOK, json |-> FALSE,
      access_token |-> "", refresh_token |-> "", expires_in |-> 0],
     [transport |-> "ok", statusCode |-> StatusServerError, json |-> TRUE,
      access_token |-> "", refresh_token |-> "", expires_in |-> 0],
     [transport |-> "ok", statusCode |-> StatusOK, json |-> FALSE,
      access_token |-> "", refresh_token |-> "", expires_in |-> 0]}

\* Token endpoint: status code and JSON {access_token, refresh_token,
\* expires_in}; a JSON without expires_in parses as expires_in 0.
TokenResponses ==
    FailedTokenResponses
    \cup
    [transport : {"ok"}, statusCode : {StatusOK}, json : {TRUE},
     access_token : AccessTokens \cup {""}, refresh_token : RefreshTokens,
     expires_in : {0, 60}]

\* The token responses of the exchange taken alone: every access token,
\* and an expires_in that is negative, zero or positive.
ExchangeTokenResponses ==
    FailedTokenResponses
    \cup
    [transport : {"ok"}, statusCode : {StatusOK}, json : {TRUE},
     access_token : AccessTokens \cup StructuredTokens \cup {""},
     refresh_token : RefreshTokens,
     expires_in : {-1, 0, 60}]

\* The readings of time.Now() of the exchange taken alone, in seconds.
Nows == {1000, 1030}

\* No token request was made.
NoTokenResponse ==
    [transport |-> "none", statusCode |-> 0, json |-> FALSE,
     access_token |-> "", refresh_token |-> "", expires_in |-> 0]

NoTokenRequest ==
    [sent |-> FALSE, code |-> "", code_verifier |-> "", state |-> ""]

NoGrantRequest ==
    [sent |-> FALSE, state |-> "", code_challenge |-> "",
     code_challenge_method |-> ""]

\* ------------------------------------------------------------------------
\* The functions of qwen_oauth.go, each given the response the server
\* returns to the request it issues
\* ------------------------------------------------------------------------

\* An HTTP round trip of a client with the given Timeout (0: none): "ok"
\* when a response arrived, "error" when the transport failed or the
\* client's timeout expired, "hung" when the server never answers and the
\* client has no timeout.
HttpDo(timeout, resp) ==
    CASE resp.transport = "ok" -> "ok"
      [] resp.transport = "error" -> "error"
      [] OTHER -> IF timeout > 0 THEN "error" ELSE "hung"

\* generateCodeChallenge: returns the verifier unchanged.
generateCodeChallenge(verifier) == verifier

\* getQwenQRCode: the request sent, the parsed response and the error.
getQwenQRCode(state_, codeChallenge, resp) ==
    LET req == [sent |-> TRUE, state |-> state_,
                code_challenge |-> codeChallenge,
                code_challenge_method |-> "S256"]
        none == [QrCodeId |-> "", QrCodeUrl |-> ""]
    IN  IF HttpDo(GrantTimeoutSeconds, resp) # "ok"
        THEN [req |-> req, qr |-> none, err |-> "transport"]
        ELSE IF ~resp.json
        THEN [req |-> req, qr |-> none, err |-> "parse_qrcode"]
        ELSE [req |-> req,
              qr |-> [QrCodeId |-> resp.qrCodeId, QrCodeUrl |-> resp.qrCodeUrl],
              err |-> ""]

\* exchangeQwenCodeForToken with the refresh token taken for the access
\* token.
exchangeQwenCodeForToken_swapped(code, codeVerifier_, state_, resp, now) ==
    LET req == [sent |-> TRUE, code |-> code,
                code_verifier |-> codeVerifier_, state |-> state_]
        fail(e) == [req |-> req, cred |-> NilCred, err |-> e, hung |-> FALSE]
        http == HttpDo(DefaultClientTimeout, resp)
    IN  IF http = "hung"
        THEN [req |-> req, cred |-> NilCred, err |-> "", hung |-> TRUE]
        ELSE IF http = "error" THEN fail("transport")
        ELSE IF resp.statusCode # StatusOK THEN fail("http_status")
        ELSE IF ~resp.json THEN fail("parse")
        ELSE IF resp.access_token = "" THEN fail("no_access_token")
        ELSE [req |-> req,
              cred |-> [nil |-> FALSE,
                        AccessToken |-> resp.refresh_token,
                        RefreshToken |-> resp.access_token,
                        ExpiresAt |-> IF resp.expires_in > 0
                                      THEN now + resp.expires_in ELSE 0,
                        Provider |-> "qwen",
                        AuthMethod |-> "oauth",
                        AccountID |-> extractQwenAccountID(resp.refresh_token)],
              err |-> "", hung |-> FALSE]

\* exchangeQwenCodeForToken without the check of an empty access_token.
exchangeQwenCodeForToken_unchecked(code, codeVerifier_, state_, resp, now) ==
    LET req == [sent |-> TRUE, code |-> code,
                code_verifier |-> codeVerifier_, state |-> state_]
        fail(e) == [req |-> req, cred |-> NilCred, err |-> e, hung |-> FALSE]
        http == HttpDo(DefaultClientTimeout, resp)
    IN  IF http = "hung"
        THEN [req |-> req, cred |-> NilCred, err |-> "", hung |-> TRUE]
        ELSE IF http = "error" THEN fail("transport")
        ELSE IF resp.statusCode # StatusOK THEN fail("http_status")
        ELSE IF ~resp.json THEN fail("parse")
        ELSE [req |-> req,
              cred |-> [nil |-> FALSE,
                        AccessToken |-> resp.access_token,
                        RefreshToken |-> resp.refresh_token,
                        ExpiresAt |-> IF resp.expires_in > 0
                                      THEN now + resp.expires_in ELSE 0,
                        Provider |-> "qwen",
                        AuthMethod |-> "oauth",
                        AccountID |-> extractQwenAccountID(resp.access_token)],
              err |-> "", hung |-> FALSE]

\* exchangeQwenCodeForToken adding expires_in to the clock whatever its
\* sign.
exchangeQwenCodeForToken_alwaysExpires(code, codeVerifier_, state_, resp, now) ==
    LET req == [sent |-> TRUE, code |-> code,
                code_verifier |-> codeVerifier_, state |-> state_]
        fail(e) == [req |-> req, cred |-> NilCred, err |-> e, hung |-> FALSE]
        http == HttpDo(DefaultClientTimeout, resp)
    IN  IF http = "hung"
        THEN [req |-> req, cred |-> NilCred, err |-> "", hung |-> TRUE]
        ELSE IF http = "error" THEN fail("transport")
        ELSE IF resp.statusCode # StatusOK THEN fail("http_status")
        ELSE IF ~resp.json THEN fail("parse")
        ELSE IF resp.access_token = "" THEN fail("no_access_token")
        ELSE [req |-> req,
              cred |-> [nil |-> FALSE,
                        AccessToken |-> resp.access_token,
                        RefreshToken |-> resp.refresh_token,
                        ExpiresAt |-> now + resp.expires_in,
                        Provider |-> "qwen",
                        AuthMethod |-> "oauth",
                        AccountID |-> extractQwenAccountID(resp.access_token)],
              err |-> "", hung |-> FALSE]

\* exchangeQwenCodeForToken: the request sent, and the credential or the
\* error returned; hung when http.Post never returns.
exchangeQwenCodeForToken(code, codeVerifier_, state_, resp, now) ==
    LET req == [sent |-> TRUE, code |-> code,
                code_verifier |-> codeVerifier_, state |-> state_]
        fail(e) == [req |-> req, cred |-> NilCred, err |-> e, hung |-> FALSE]
        http == HttpDo(DefaultClientTimeout, resp)
    IN  IF http = "hung"
        THEN [req |-> req, cred |-> NilCred, err |-> "", hung |-> TRUE]
        ELSE IF http = "error" THEN fail("transport")
        ELSE IF resp.statusCode # StatusOK THEN fail("http_status")
        ELSE IF ~resp.json THEN fail("parse")
        ELSE IF resp.access_token = "" THEN fail("no_access_token")
        ELSE [req |-> req,
              cred |-> [nil |-> FALSE,
                        AccessToken |-> resp.access_token,
                        RefreshToken |-> resp.refresh_token,
                        ExpiresAt |-> IF resp.expires_in > 0
                                      THEN now + resp.expires_in ELSE 0,
                        Provider |-> "qwen",
                        AuthMethod |-> "oauth",
                        AccountID |-> extractQwenAccountID(resp.access_token)],
              err |-> "", hung |-> FALSE]

\* checkQwenScanStatus handing state and codeVerifier to the exchange in
\* its own parameter order (qrCodeId, state, codeVerifier) instead of the
\* exchange's (code, codeVerifier, state).
checkQwenScanStatus_swapped(qrCodeId, state_, codeVerifier_, sresp, tresp, now) ==
    LET ret(c, e) == [req |-> NoTokenRequest, cred |-> c, err |-> e,
                      hung |-> FALSE]
        http == HttpDo(DefaultClientTimeout, sresp)
    IN  IF http = "hung"
        THEN [req |-> NoTokenRequest, cred |-> NilCred, err |-> "", hung |-> TRUE]
        ELSE IF http = "error" THEN ret(NilCred, "transport")
        ELSE IF ~sresp.json THEN ret(NilCred, "parse")
        ELSE CASE sresp.status = "AUTHORIZED" ->
                    IF sresp.code = ""
                    THEN ret(NilCred, "code_missing")
                    ELSE exchangeQwenCodeForToken(sresp.code, state_,
                                                  codeVerifier_, tresp, now)
               [] sresp.status \in {"EXPIRED", "CANCELED"} ->
                    ret(NilCred, "grant_terminated")
               [] OTHER -> ret(NilCred, "")

\* checkQwenScanStatus without the check of an empty code.
checkQwenScanStatus_uncheckedCode(qrCodeId, state_, codeVerifier_, sresp, tresp, now) ==
    LET ret(c, e) == [req |-> NoTokenRequest, cred |-> c, err |-> e,
                      hung |-> FALSE]
        http == HttpDo(DefaultClientTimeout, sresp)
    IN  IF http = "hung"
        THEN [req |-> NoTokenRequest, cred |-> NilCred, err |-> "", hung |-> TRUE]
        ELSE IF http = "error" THEN ret(NilCred, "transport")
        ELSE IF ~sresp.json THEN ret(NilCred, "parse")
        ELSE CASE sresp.status = "AUTHORIZED" ->
                    exchangeQwenCodeForToken(sresp.code, codeVerifier_,
                                             state_, tresp, now)
               [] sresp.status \in {"EXPIRED", "CANCELED"} ->
                    ret(NilCred, "grant_terminated")
               [] OTHER -> ret(NilCred, "")

\* checkQwenScanStatus: one status poll, and on AUTHORIZED with a code the
\* token exchange; (nil, nil) means keep waiting.
checkQwenScanStatus(qrCodeId, state_, codeVerifier_, sresp, tresp, now) ==
    LET ret(c, e) == [req |-> NoTokenRequest, cred |-> c, err |-> e,
                      hung |-> FALSE]
        http == HttpDo(DefaultClientTimeout, sresp)
    IN  IF http = "hung"
        THEN [req |-> NoTokenRequest, cred |-> NilCred, err |-> "", hung |-> TRUE]
        ELSE IF http = "error" THEN ret(NilCred, "transport")
        ELSE IF ~sresp.json THEN ret(NilCred, "parse")
        ELSE CASE sresp.status = "AUTHORIZED" ->
                    IF sresp.code = ""
                    THEN ret(NilCred, "code_missing")
                    ELSE exchangeQwenCodeForToken(sresp.code, codeVerifier_,
                                                  state_, tresp, now)
               [] sresp.status \in {"EXPIRED", "CANCELED"} ->
                    ret(NilCred, "grant_terminated")
               [] OTHER -> ret(NilCred, "")

\* The loop returning on an error of checkQwenScanStatus instead of
\* polling again.
LoopOutcome_returnsOnError(r) ==
    IF r.err # "" THEN "return"
    ELSE IF ~r.cred.nil THEN "return"
    ELSE "loop"

\* The loop returning what checkQwenScanStatus returned also when that is
\* neither a credential nor an error.
LoopOutcome_returnsOnNeither(r) ==
    IF r.err # "" THEN "continue"
    ELSE "return"

\* The body of "case <-ticker.C" of LoginQwenQRCode, given what
\* checkQwenScanStatus returned: "continue" on any error, "return" on a
\* credential, "loop" otherwise.
LoopOutcome(r) ==
    IF r.err # "" THEN "continue"
    ELSE IF ~r.cred.nil THEN "return"
    ELSE "loop"

\* generateQwenState / generateCodeVerifier: rnd is what crypto/rand
\* supplied, encoded; "" when rand.Read failed.
generateQwenState(rnd) ==
    IF rnd = "" THEN [val |-> "", err |-> "entropy"] ELSE [val |-> rnd, err |-> ""]

generateCodeVerifier(rnd) ==
    IF rnd = "" THEN [val |-> "", err |-> "entropy"] ELSE [val |-> rnd, err |-> ""]

\* ------------------------------------------------------------------------
\* State
\* ------------------------------------------------------------------------

VARIABLES
    pc,            \* where LoginQwenQRCode is: "init", "select" (the polling
                   \* loop's select), "blocked" (inside a network call that
                   \* never returns), "done" (returned)
    state,         \* the state parameter
    codeVerifier,  \* the PKCE verifier
    grantReq,      \* the grant request sent by getQwenQRCode
    qr,            \* qrCodeResp.Data: QrCodeId, QrCodeUrl
    elapsed,       \* ticker periods elapsed since the loop was entered
    tickReady,     \* ticker.C holds a tick
    deadlineAt,    \* when the time.After channel fires, in seconds
    polls,         \* status requests issued
    lastPoll,      \* the last call of checkQwenScanStatus: the responses it
                   \* got, the token request it sent, what it returned
    result,        \* what LoginQwenQRCode returned: cred, err
    hist,          \* observers of the run, see Observe
    cancelled,     \* the operator has interrupted the invocation
    store,         \* the credential stored for provider "qwen" (NilCred:
                   \* none)
    oauth,         \* LoginQwenOAuth: whether it returned, its error, and
                   \* how often it called SaveCredential
    xin,           \* the exchange taken alone: the token response and the
                   \* reading of the clock it is given
    xout,          \* the exchange taken alone: what it returned
    chat,          \* QwenProvider.Chat: the provider's authMethod and what
                   \* the call did
    running,       \* TelegramChannel: BaseChannel's running flag
    stopThinking,  \* TelegramChannel.stopThinking: chat -> stop channel (0:
                   \* no entry)
    placeholders,  \* TelegramChannel.placeholders: chat -> message (0: no
                   \* entry)
    chans,         \* the stop channels made so far: the chat, and how often
                   \* close was called on it
    anims,         \* the animation goroutine of each stop channel, and how
                   \* many calls of Send edited its placeholder into a reply
    handler,       \* handleMessage: where the call in progress is
    senders,       \* the calls of Send in progress
    panicked,      \* the process panicked (close of a closed channel)
    content,       \* msg.Content of a call of Send, as its pieces
    htmlContent    \* what markdownToTelegramHTML made of it

\* What the polling loop of LoginQwenQRCode reads and writes.
loopVars == <<pc, state, codeVerifier, grantReq, qr, elapsed, tickReady,
              deadlineAt, polls, lastPoll, result, hist>>

\* The state around the loop: the caller and the credential store.
callerVars == <<cancelled, store, oauth>>

\* The exchange taken alone.
exchangeVars == <<xin, xout>>

\* QwenProvider.
providerVars == <<chat>>

\* TelegramChannel.
telegramVars == <<running, stopThinking, placeholders, chans, anims, handler,
                  senders, panicked>>

\* The state of the other components.
markdownVars == <<content, htmlContent>>

notLogin == <<exchangeVars, providerVars, telegramVars, markdownVars>>

vars == <<loopVars, callerVars, notLogin>>

NoPoll ==
    [resp |-> [transport |-> "none", json |-> FALSE, status |-> "", code |-> ""],
     tok |-> NoTokenResponse, req |-> NoTokenRequest,
     cred |-> NilCred, err |-> "", hung |-> FALSE]

NoResult == [cred |-> NilCred, err |-> ""]

\* The statuses of the polling scenario of the spec's testable properties.
StubSequence == <<"PENDING", "PENDING", "SCANNED", "AUTHORIZED">>

\* The status of a response that was received and parsed.
Parsed(sresp) == sresp.transport = "ok" /\ sresp.json

IsWaiting(sresp) == Parsed(sresp) /\ sresp.status \in {"PENDING", "SCANNED"}

IsTerminated(sresp) == Parsed(sresp) /\ sresp.status \in {"EXPIRED", "CANCELED"}

\* A transport or parse error of the status poll.
IsPollError(sresp) ==
    sresp.transport = "error" \/ (sresp.transport = "ok" /\ ~sresp.json)

\* A token response that makes the exchange fail.
IsExchangeFailure(tresp) ==
    \/ tresp.transport = "error"
    \/ /\ tresp.transport = "ok"
       /\ (tresp.statusCode # StatusOK \/ ~tresp.json \/ tresp.access_token = "")

\* Observers of the run, updated by the n-th poll: every poll so far was
\* answered PENDING or SCANNED; every poll so far failed in transport or
\* parsing; the polls so far were answered by StubSequence, in order, the
\* AUTHORIZED one with a code; some poll was answered EXPIRED or CANCELED.
Observe(h, n, sresp) ==
    [onlyWaiting |-> h.onlyWaiting /\ IsWaiting(sresp),
     onlyFailing |-> h.onlyFailing /\ IsPollError(sresp),
     onScript |-> /\ h.onScript
                  /\ n <= Len(StubSequence)
                  /\ Parsed(sresp)
                  /\ sresp.status = StubSequence[n]
                  /\ (sresp.status = "AUTHORIZED" => sresp.code # ""),
     terminated |-> h.terminated \/ IsTerminated(sresp)]

\* A credential stored by an earlier login.
OldCred ==
    [nil |-> FALSE, AccessToken |-> "t0", RefreshToken |-> "", ExpiresAt |-> 0,
     Provider |-> "qwen", AuthMethod |-> "oauth", AccountID |-> ""]

NotReturned == [returned |-> FALSE, err |-> "", saves |-> 0]

LoopInit ==
    /\ pc = "init"
    /\ state = ""
    /\ codeVerifier = ""
    /\ grantReq = NoGrantRequest
    /\ qr = [QrCodeId |-> "", QrCodeUrl |-> ""]
    /\ elapsed = 0
    /\ tickReady = FALSE
    /\ deadlineAt = 0
    /\ polls = 0
    /\ lastPoll = NoPoll
    /\ result = NoResult
    /\ hist = [onlyWaiting |-> TRUE, onlyFailing |-> TRUE, onScript |-> TRUE,
               terminated |-> FALSE]
    /\ cancelled = FALSE
    /\ oauth = NotReturned

NoExchange ==
    [req |-> NoTokenRequest, cred |-> NilCred, err |-> "", hung |-> FALSE]

\* No exchange is taken alone.
ExchangeIdle ==
    /\ xin = [resp |-> NoTokenResponse, now |-> 0]
    /\ xout = NoExchange

NoChat ==
    [called |-> FALSE, err |-> "", sent |-> FALSE, token |-> "",
     readable |-> FALSE, now |-> 0]

\* No provider is in use.
ProviderIdle == chat = [authMethod |-> "", apiKey |-> "", call |-> NoChat]

\* Telegram chats, by the decimal string of their id.  The maps of the
\* channel are keyed by chat and nothing else is shared between chats.
Chats == {"100"}

\* The goroutines that call Send.
Senders == {"a", "b"}

IdleHandler == [pc |-> "idle", chat |-> "", ch |-> 0]

IdleSender == [pc |-> "idle", chat |-> "", stop |-> 0, pid |-> 0, seen |-> 0]

\* A TelegramChannel as NewTelegramChannel makes it, with the given
\* running flag.
NewTelegramChannel(isRunning) ==
    /\ running = isRunning
    /\ stopThinking = [c \in Chats |-> 0]
    /\ placeholders = [c \in Chats |-> 0]
    /\ chans = <<>>
    /\ anims = <<>>
    /\ handler = IdleHandler
    /\ senders = [s \in Senders |-> IdleSender]
    /\ panicked = FALSE

\* No Telegram channel is started.
TelegramIdle == NewTelegramChannel(FALSE)

\* No message content is being converted.
NotConverted == [done |-> FALSE, text |-> <<>>]

MarkdownIdle ==
    /\ content = <<>>
    /\ htmlContent = NotConverted

\* LoginQwenOAuth is called with no credential stored, or with the one of
\* an earlier login.
Init ==
    /\ LoopInit
    /\ store \in {NilCred, OldCred}
    /\ ExchangeIdle
    /\ ProviderIdle
    /\ TelegramIdle
    /\ MarkdownIdle

\* ------------------------------------------------------------------------
\* LoginQwenQRCode
\* ------------------------------------------------------------------------

\* The deadline timer created inside the loop: every iteration that polls
\* pushes it back by the time the iteration waited.
DeadlineFired_rearmed ==
    elapsed * TickSeconds >= deadlineAt + polls * TickSeconds

\* The deadline channel of the loop has fired.
DeadlineFired == elapsed * TickSeconds >= deadlineAt

\* LoginQwenQRCode up to the loop: state, verifier, challenge, the grant
\* request, the display of the grant, and the start of deadline and ticker.
Begin ==
    /\ pc = "init"
    /\ \E rndState \in States \cup {""}, rndVerifier \in Verifiers \cup {""},
          gresp \in GrantResponses :
        LET st == generateQwenState(rndState)
            cv == generateCodeVerifier(rndVerifier)
            g == getQwenQRCode(st.val, generateCodeChallenge(cv.val), gresp)
        IN  IF st.err # ""
            THEN /\ pc' = "done"
                 /\ result' = [cred |-> NilCred, err |-> "state"]
                 /\ UNCHANGED <<state, codeVerifier, grantReq, qr, deadlineAt>>
            ELSE IF cv.err # ""
            THEN /\ pc' = "done"
                 /\ result' = [cred |-> NilCred, err |-> "code_verifier"]
                 /\ state' = st.val
                 /\ UNCHANGED <<codeVerifier, grantReq, qr, deadlineAt>>
            ELSE /\ state' = st.val
                 /\ codeVerifier' = cv.val
                 /\ grantReq' = g.req
                 /\ IF g.err # ""
                    THEN /\ pc' = "done"
                         /\ result' = [cred |-> NilCred, err |-> "qrcode"]
                         /\ UNCHANGED <<qr, deadlineAt>>
                    ELSE /\ pc' = "select"
                         /\ qr' = g.qr
                         /\ deadlineAt' = elapsed * TickSeconds + DeadlineSeconds
                         /\ UNCHANGED result
    /\ UNCHANGED <<elapsed, tickReady, polls, lastPoll, hist>>
    /\ UNCHANGED <<callerVars, notLogin>>

\* A ticker period passes: the ticker puts a tick in its channel, which
\* holds one (a tick sent while one is waiting is dropped).
Tick ==
    /\ pc \in {"select", "blocked"}
    /\ elapsed < MaxElapsed
    /\ elapsed' = elapsed + 1
    /\ tickReady' = TRUE
    /\ UNCHANGED <<pc, state, codeVerifier, grantReq, qr, deadlineAt, polls,
                   lastPoll, result, hist>>
    /\ UNCHANGED <<callerVars, notLogin>>

\* case <-deadline
Timeout ==
    /\ pc = "select"
    /\ DeadlineFired
    /\ pc' = "done"
    /\ result' = [cred |-> NilCred, err |-> "timeout"]
    /\ UNCHANGED <<state, codeVerifier, grantReq, qr, elapsed, tickReady,
                   deadlineAt, polls, lastPoll, hist>>
    /\ UNCHANGED <<callerVars, notLogin>>

\* time.Now() during the login, in seconds.
LoginNow == 1000 + elapsed * TickSeconds

\* case <-ticker.C, with the server's answers to the status request and,
\* if one is sent, to the token request.
PollTick(sresp, tresp) ==
    /\ pc = "select"
    /\ tickReady
    /\ LET r == checkQwenScanStatus(qr.QrCodeId, state, codeVerifier, sresp,
                                    tresp, LoginNow)
           o == LoopOutcome(r)
       IN  /\ tickReady' = FALSE
           /\ polls' = polls + 1
           /\ lastPoll' = [resp |-> sresp,
                           tok |-> IF r.req.sent THEN tresp ELSE NoTokenResponse,
                           req |-> r.req, cred |-> r.cred, err |-> r.err,
                           hung |-> r.hung]
           /\ hist' = Observe(hist, polls + 1, sresp)
           /\ pc' = IF r.hung THEN "blocked"
                    ELSE IF o = "return" THEN "done"
                    ELSE "select"
           /\ result' = IF ~r.hung /\ o = "return"
                        THEN [cred |-> r.cred, err |-> ""]
                        ELSE result
    /\ UNCHANGED <<state, codeVerifier, grantReq, qr, elapsed, deadlineAt>>
    /\ UNCHANGED <<callerVars, notLogin>>

\* The answers of the token endpoint that can follow a status response:
\* it is asked only after AUTHORIZED.
TokenAnswers(sresp) ==
    IF Parsed(sresp) /\ sresp.status = "AUTHORIZED"
    THEN TokenResponses
    ELSE {NoTokenResponse}

Poll ==
    \E sresp \in StatusResponses :
        \E tresp \in TokenAnswers(sresp) : PollTick(sresp, tresp)

\* SaveCredential(provider, cred) of the credential store: the store
\* after the call and the error; a failed save leaves the store as it was.
SaveCredential(st, cred, ok) ==
    IF ok THEN [store |-> cred, err |-> ""]
    ELSE [store |-> st, err |-> "save"]

\* LoginQwenOAuth saving whatever LoginQwenQRCode returned, error or not.
AfterLogin_savesAlways ==
    /\ pc = "done"
    /\ ~oauth.returned
    /\ \E ok \in BOOLEAN :
         LET sv == SaveCredential(store, result.cred, ok)
         IN  /\ store' = sv.store
             /\ oauth' = [returned |-> TRUE,
                          err |-> IF result.err # "" THEN "login" ELSE sv.err,
                          saves |-> oauth.saves + 1]
    /\ UNCHANGED <<loopVars, cancelled, notLogin>>

\* LoginQwenOAuth after LoginQwenQRCode returned: the error is passed on,
\* or the credential is saved for provider "qwen".
AfterLogin ==
    /\ pc = "done"
    /\ ~oauth.returned
    /\ IF result.err # ""
       THEN /\ oauth' = [returned |-> TRUE, err |-> "login", saves |-> oauth.saves]
            /\ UNCHANGED store
       ELSE \E ok \in BOOLEAN :
              LET sv == SaveCredential(store, result.cred, ok)
              IN  /\ store' = sv.store
                  /\ oauth' = [returned |-> TRUE, err |-> sv.err,
                               saves |-> oauth.saves + 1]
    /\ UNCHANGED <<loopVars, cancelled, notLogin>>

\* The operator interrupts the invocation while the login polls.
Cancel ==
    /\ pc \in {"select", "blocked"}
    /\ ~cancelled
    /\ cancelled' = TRUE
    /\ UNCHANGED <<loopVars, store, oauth, notLogin>>

Next == Begin \/ Tick \/ Timeout \/ Poll \/ AfterLogin

\* The login with an operator who may interrupt it.
CancelNext == Next \/ Cancel

CancelSpec == Init /\ [][CancelNext]_vars

\* exchangeQwenCodeForToken taken alone, on every token response and
\* reading of the clock.
ExchangeInit ==
    /\ LoopInit
    /\ store = NilCred
    /\ ProviderIdle
    /\ TelegramIdle
    /\ MarkdownIdle
    /\ xin \in [resp : ExchangeTokenResponses, now : Nows]
    /\ xout = NoExchange

Exchange ==
    /\ ~xout.req.sent
    /\ \E code \in Codes, verifier \in Verifiers, st \in States :
         xout' = exchangeQwenCodeForToken(code, verifier, st, xin.resp, xin.now)
    /\ UNCHANGED <<loopVars, callerVars, xin, providerVars, telegramVars,
                 markdownVars>>

ExchangeNext == Exchange

ExchangeSpec == ExchangeInit /\ [][ExchangeNext]_vars

\* ------------------------------------------------------------------------
\* QwenProvider.Chat
\* ------------------------------------------------------------------------

\* The credentials exchangeQwenCodeForToken can return, which are the ones
\* LoginQwenOAuth saves.
ExchangedCreds ==
    {exchangeQwenCodeForToken("c1", "v", "s1", resp, now).cred :
        resp \in ExchangeTokenResponses, now \in Nows} \ {NilCred}

\* The readings of the clock at a call of Chat, in seconds.
ChatTimes == {1059, 1060, 1061, 1089, 1090, 1091}

\* auth.GetCredential(provider) of the credential store: the credential
\* stored (nil when there is none), or an error when the store cannot be
\* read.
GetCredential(st, readable) ==
    IF readable THEN [cred |-> st, err |-> ""]
    ELSE [cred |-> NilCred, err |-> "load"]

\* AuthCredential.IsExpired: no expiresAt never expires; otherwise the
\* credential is expired unless expiresAt is strictly in the future.
IsExpired(cred, now) == cred.ExpiresAt # 0 /\ cred.ExpiresAt <= now

\* QwenProvider.Chat without the check of the expiry.
QwenProvider_Chat_noExpiryCheck(authMethod, apiKey, st, readable, now) ==
    LET fail(e) == [called |-> TRUE, err |-> e, sent |-> FALSE, token |-> "",
                    readable |-> readable, now |-> now]
        send(t) == [called |-> TRUE, err |-> "", sent |-> TRUE, token |-> t,
                    readable |-> readable, now |-> now]
        got == GetCredential(st, readable)
    IN  IF authMethod = "oauth"
        THEN IF got.err # "" THEN fail("load")
             ELSE IF got.cred.nil THEN fail("no_credential")
             ELSE send(got.cred.AccessToken)
        ELSE send(apiKey)

\* QwenProvider.Chat: the error it returns, or the token with which the
\* request is sent.
QwenProvider_Chat(authMethod, apiKey, st, readable, now) ==
    LET fail(e) == [called |-> TRUE, err |-> e, sent |-> FALSE, token |-> "",
                    readable |-> readable, now |-> now]
        send(t) == [called |-> TRUE, err |-> "", sent |-> TRUE, token |-> t,
                    readable |-> readable, now |-> now]
        got == GetCredential(st, readable)
    IN  IF authMethod = "oauth"
        THEN IF got.err # "" THEN fail("load")
             ELSE IF got.cred.nil THEN fail("no_credential")
             ELSE IF IsExpired(got.cred, now) THEN fail("expired")
             ELSE send(got.cred.AccessToken)
        ELSE send(apiKey)

\* A provider made by NewQwenProvider (API key) or createQwenAuthProvider
\* (oauth), and a store that is empty or holds a credential of a login.
ProviderInit ==
    /\ LoopInit
    /\ ExchangeIdle
    /\ TelegramIdle
    /\ MarkdownIdle
    /\ store \in ExchangedCreds \cup {NilCred}
    /\ chat \in [authMethod : {"", "oauth"}, apiKey : {"k1"}, call : {NoChat}]

Chat ==
    /\ ~chat.call.called
    /\ \E now \in ChatTimes, readable \in BOOLEAN :
         chat' = [chat EXCEPT !.call =
                    QwenProvider_Chat(chat.authMethod, chat.apiKey, store,
                                      readable, now)]
    /\ UNCHANGED <<loopVars, callerVars, exchangeVars, telegramVars,
                 markdownVars>>

ProviderNext == Chat

ProviderSpec == ProviderInit /\ [][ProviderNext]_vars

\* ------------------------------------------------------------------------
\* TelegramChannel: handleMessage, the "Thinking" animation, Send
\* ------------------------------------------------------------------------

\* parseChatID
parseChatID(chatIDStr) ==
    IF chatIDStr \in Chats THEN [err |-> ""] ELSE [err |-> "invalid chat ID"]

\* How many inbound messages handleMessage had handled to its end when
\* Send is called.
Handled == IF handler.pc = "stored" THEN Len(chans) - 1 ELSE Len(chans)

\* The reply of a call of Send to a chat was delivered: the animations
\* started for the chat by the first seen inbound messages, those handled
\* when Send was called, have been replied to.
Replied(chatID, seen) ==
    [k \in 1..Len(anims) |->
        IF k <= seen /\ chans[k].chat = chatID /\ anims[k].state # "none"
        THEN [anims[k] EXCEPT !.replied = TRUE]
        ELSE anims[k]]

\* A call of Send edited placeholder pID into its reply.
Consumed(as, pID) == [as EXCEPT ![pID].consumed = as[pID].consumed + 1]

\* handleMessage, lines 248-249: a new stop channel is stored for the chat.
handleMessageStore(chatID) ==
    /\ ~panicked
    /\ handler.pc = "idle"
    /\ Len(chans) < MaxInbound
    /\ LET stopChan == Len(chans) + 1
       IN  /\ chans' = Append(chans, [chat |-> chatID, closes |-> 0])
           /\ anims' = Append(anims, [state |-> "none", frame |-> 0,
                                      replied |-> FALSE, consumed |-> 0])
           /\ stopThinking' = [stopThinking EXCEPT ![chatID] = stopChan]
           /\ handler' = [pc |-> "stored", chat |-> chatID, ch |-> stopChan]
    /\ UNCHANGED <<running, placeholders, senders, panicked>>
    /\ UNCHANGED <<loopVars, callerVars, exchangeVars, providerVars,
                 markdownVars>>

\* handleMessage, lines 251-276: the placeholder message is sent; when that
\* succeeded it is stored for the chat and the animation goroutine is
\* started.  The placeholder of the n-th stop channel is message n.
handleMessageThinking(sent) ==
    /\ ~panicked
    /\ handler.pc = "stored"
    /\ IF sent
       THEN /\ placeholders' = [placeholders EXCEPT ![handler.chat] = handler.ch]
            /\ anims' = [anims EXCEPT ![handler.ch].state = "running"]
       ELSE UNCHANGED <<placeholders, anims>>
    /\ handler' = IdleHandler
    /\ UNCHANGED <<running, stopThinking, chans, senders, panicked>>
    /\ UNCHANGED <<loopVars, callerVars, exchangeVars, providerVars,
                 markdownVars>>

\* The animation goroutine, case <-ticker.C: the placeholder is edited.
Animate(k) ==
    /\ ~panicked
    /\ anims[k].state = "running"
    /\ anims' = [anims EXCEPT ![k].frame = (anims[k].frame + 1) % Frames]
    /\ UNCHANGED <<running, stopThinking, placeholders, chans, handler,
                   senders, panicked>>
    /\ UNCHANGED <<loopVars, callerVars, exchangeVars, providerVars,
                 markdownVars>>

\* The animation goroutine, case <-stop: the stop channel was closed.
AnimationStops(k) ==
    /\ ~panicked
    /\ anims[k].state = "running"
    /\ chans[k].closes > 0
    /\ anims' = [anims EXCEPT ![k].state = "returned", ![k].frame = 0]
    /\ UNCHANGED <<running, stopThinking, placeholders, chans, handler,
                   senders, panicked>>
    /\ UNCHANGED <<loopVars, callerVars, exchangeVars, providerVars,
                 markdownVars>>

\* Send, lines 98-108: the checks of the running flag and of the chat id,
\* and stopThinking.Load.
SendLoadStop(s, chatID) ==
    /\ ~panicked
    /\ senders[s].pc = "idle"
    /\ IF ~running \/ parseChatID(chatID).err # ""
       THEN UNCHANGED senders
       ELSE senders' = [senders EXCEPT ![s] =
                          [pc |-> IF stopThinking[chatID] # 0 THEN "close"
                                  ELSE "loadPlaceholder",
                           chat |-> chatID, stop |-> stopThinking[chatID],
                           pid |-> 0, seen |-> Handled]]
    /\ UNCHANGED <<running, stopThinking, placeholders, chans, anims, handler,
                   panicked>>
    /\ UNCHANGED <<loopVars, callerVars, exchangeVars, providerVars,
                 markdownVars>>

\* Send, line 109: close(stop); closing a closed channel panics.
SendClose(s) ==
    /\ ~panicked
    /\ senders[s].pc = "close"
    /\ IF chans[senders[s].stop].closes > 0
       THEN /\ panicked' = TRUE
            /\ UNCHANGED <<chans, senders>>
       ELSE /\ chans' = [chans EXCEPT ![senders[s].stop].closes = 1]
            /\ senders' = [senders EXCEPT ![s].pc = "delete", ![s].stop = 0]
            /\ UNCHANGED panicked
    /\ UNCHANGED <<running, stopThinking, placeholders, anims, handler>>
    /\ UNCHANGED <<loopVars, callerVars, exchangeVars, providerVars,
                 markdownVars>>

\* Send, line 110: stopThinking.Delete
SendDelete(s) ==
    /\ ~panicked
    /\ senders[s].pc = "delete"
    /\ stopThinking' = [stopThinking EXCEPT ![senders[s].chat] = 0]
    /\ senders' = [senders EXCEPT ![s].pc = "loadPlaceholder"]
    /\ UNCHANGED <<running, placeholders, chans, anims, handler, panicked>>
    /\ UNCHANGED <<loopVars, callerVars, exchangeVars, providerVars,
                 markdownVars>>

\* Send, line 116, and without a placeholder lines 127-137:
\* placeholders.Load; when there is none the reply is sent as a new
\* message, as HTML or, if that fails, as plain text.
SendLoadPlaceholder(s, sent) ==
    /\ ~panicked
    /\ senders[s].pc = "loadPlaceholder"
    /\ LET pID == placeholders[senders[s].chat]
       IN  IF pID # 0
           THEN /\ senders' = [senders EXCEPT ![s].pid = pID,
                                              ![s].pc = "deletePlaceholder"]
                /\ UNCHANGED anims
           ELSE /\ senders' = [senders EXCEPT ![s] = IdleSender]
                /\ anims' = IF sent
                            THEN Replied(senders[s].chat, senders[s].seen)
                            ELSE anims
    /\ UNCHANGED <<running, stopThinking, placeholders, chans, handler, panicked>>
    /\ UNCHANGED <<loopVars, callerVars, exchangeVars, providerVars,
                 markdownVars>>

\* Send, lines 117-137: placeholders.Delete; the placeholder is edited
\* into the reply, and if that fails the reply is sent as a new message.
SendReply(s, edited, sent) ==
    /\ ~panicked
    /\ senders[s].pc = "deletePlaceholder"
    /\ placeholders' = [placeholders EXCEPT ![senders[s].chat] = 0]
    /\ senders' = [senders EXCEPT ![s] = IdleSender]
    /\ LET replied == IF edited \/ sent
                      THEN Replied(senders[s].chat, senders[s].seen)
                      ELSE anims
       IN  anims' = IF edited THEN Consumed(replied, senders[s].pid)
                    ELSE replied
    /\ UNCHANGED <<running, stopThinking, chans, handler, panicked>>
    /\ UNCHANGED <<loopVars, callerVars, exchangeVars, providerVars,
                 markdownVars>>

\* A channel after Start.
TelegramInit ==
    /\ LoopInit
    /\ store = NilCred
    /\ ExchangeIdle
    /\ ProviderIdle
    /\ NewTelegramChannel(TRUE)
    /\ MarkdownIdle

handleMessage ==
    \/ \E chatID \in Chats : handleMessageStore(chatID)
    \/ \E sent \in BOOLEAN : handleMessageThinking(sent)

Animation == \E k \in 1..Len(anims) : Animate(k) \/ AnimationStops(k)

Send ==
    \E s \in Senders :
        \/ \E chatID \in Chats \cup {"x"} : SendLoadStop(s, chatID)
        \/ SendClose(s)
        \/ SendDelete(s)
        \/ \E sent \in BOOLEAN : SendLoadPlaceholder(s, sent)
        \/ \E edited \in BOOLEAN, sent \in BOOLEAN : SendReply(s, edited, sent)

TelegramNext == handleMessage \/ Animation \/ Send

TelegramSpec == TelegramInit /\ [][TelegramNext]_vars

\* ------------------------------------------------------------------------
\* markdownToTelegramHTML (telegram.go), called by Send at line 113
\*
\* A text is a sequence of symbols whose concatenation is the Go string: the
\* message content holds one character per symbol; a placeholder marker, an
\* HTML entity and an HTML tag the function writes are one symbol each.

WordChars == {"a", "b", "g", "o"}

\* The character U+0060, the backquote of markdown code.
Backtick == "\\x60"

Fence == <<Backtick, Backtick, Backtick>>

NoMatch == [ok |-> FALSE, end |-> 0, group |-> <<>>]

\* text holds p at position i.
StartsWith(text, i, p) ==
    /\ i + Len(p) - 1 <= Len(text)
    /\ \A k \in 1..Len(p) : text[i + k - 1] = p[k]

\* The first position from i on where text holds p, or 0.
FirstAt(text, i, p) ==
    LET at == {j \in i..Len(text) : StartsWith(text, j, p)}
    IN  IF at = {} THEN 0 ELSE CHOOSE j \in at : \A l \in at : j <= l

RECURSIVE SkipWord(_, _)
\* [\w]*, greedy: the position after the word characters from i on.
SkipWord(text, i) ==
    IF i <= Len(text) /\ text[i] \in WordChars
    THEN SkipWord(text, i + 1)
    ELSE i

\* The pattern of extractCodeBlocks (line 440) tried at position i: the
\* fence of three backquotes, [\w]*, \n?, the group ([\s\S]*?) and the fence:
\* a language tag, one newline if there is one, and then the shortest
\* content that a fence follows.
codeBlockRe(text, i) ==
    IF ~StartsWith(text, i, Fence) THEN NoMatch
    ELSE LET w == SkipWord(text, i + 3)
             n == IF w <= Len(text) /\ text[w] = "\n" THEN w + 1 ELSE w
             e == FirstAt(text, n, Fence)
         IN  IF e = 0 THEN NoMatch
             ELSE [ok |-> TRUE, end |-> e + 3, group |-> SubSeq(text, n, e - 1)]

\* The pattern of extractInlineCodes (line 461) tried at position i: a
\* backquote, one character or more that are no backquote, a backquote.
inlineCodeRe(text, i) ==
    IF i > Len(text) \/ text[i] # Backtick THEN NoMatch
    ELSE LET e == FirstAt(text, i + 1, <<Backtick>>)
         IN  IF e <= i + 1 THEN NoMatch
             ELSE [ok |-> TRUE, end |-> e + 1, group |-> SubSeq(text, i + 1, e - 1)]

\* The patterns "\*\*(.+?)\*\*", "__(.+?)__" and "~~(.+?)~~", tried at
\* position i: the delimiter twice, the shortest content of one character
\* or more without a newline, the delimiter twice.
delimitedRe(text, i, d) ==
    IF ~StartsWith(text, i, <<d, d>>) THEN NoMatch
    ELSE LET ends == {j \in (i + 3)..Len(text) :
                        /\ StartsWith(text, j, <<d, d>>)
                        /\ \A k \in (i + 2)..(j - 1) : text[k] # "\n"}
         IN  IF ends = {} THEN NoMatch
             ELSE LET e == CHOOSE j \in ends : \A l \in ends : j <= l
                  IN  [ok |-> TRUE, end |-> e + 2,
                       group |-> SubSeq(text, i + 2, e - 1)]

\* The pattern "_([^_]+)_", tried at position i.
italicRe(text, i) ==
    IF i > Len(text) \/ text[i] # "_" THEN NoMatch
    ELSE LET e == FirstAt(text, i + 1, <<"_">>)
         IN  IF e <= i + 1 THEN NoMatch
             ELSE [ok |-> TRUE, end |-> e + 1, group |-> SubSeq(text, i + 1, e - 1)]

\* One pattern tried at position i.
MatchAt(re, text, i) ==
    CASE re = "codeBlock"  -> codeBlockRe(text, i)
      [] re = "inlineCode" -> inlineCodeRe(text, i)
      [] re = "italic"     -> italicRe(text, i)
      [] OTHER             -> delimitedRe(text, i, re)

RECURSIVE FindAllFrom(_, _, _)
\* regexp.FindAllStringSubmatch: the matches from left to right, each one
\* sought after the end of the one before.
FindAllFrom(re, text, i) ==
    IF i > Len(text) THEN <<>>
    ELSE LET m == MatchAt(re, text, i)
         IN  IF m.ok
             THEN <<[from |-> i, end |-> m.end, group |-> m.group]>>
                      \o FindAllFrom(re, text, m.end)
             ELSE FindAllFrom(re, text, i + 1)

FindAllStringSubmatch(re, text) == FindAllFrom(re, text, 1)

RECURSIVE ReplaceFrom(_, _, _, _, _)
\* The text from position pos on, each match from the k-th on replaced by
\* its replacement.
ReplaceFrom(text, matches, repl, k, pos) ==
    IF k > Len(matches) THEN SubSeq(text, pos, Len(text))
    ELSE SubSeq(text, pos, matches[k].from - 1) \o repl[k]
             \o ReplaceFrom(text, matches, repl, k + 1, matches[k].end)

\* regexp.ReplaceAllString with "open$1close".
ReplaceAllString(re, text, open, close) ==
    LET matches == FindAllStringSubmatch(re, text)
        repl == [k \in 1..Len(matches) |-> <<open>> \o matches[k].group \o <<close>>]
    IN  ReplaceFrom(text, matches, repl, 1, 1)

RECURSIVE ReplaceAll(_, _, _)
\* strings.ReplaceAll of the one symbol old.
ReplaceAll(text, old, new) ==
    IF text = <<>> THEN <<>>
    ELSE (IF Head(text) = old THEN new ELSE <<Head(text)>>)
             \o ReplaceAll(Tail(text), old, new)

\* fmt.Sprintf("\x00CB%d\x00", i) and fmt.Sprintf("\x00IC%d\x00", i).
Marker(kind, i) == "\\x00" \o kind \o ToString(i) \o "\\x00"

\* lines 476-481.
escapeHTML(text) ==
    ReplaceAll(ReplaceAll(ReplaceAll(text, "&", <<"&amp;">>),
                          "<", <<"&lt;">>),
               ">", <<"&gt;">>)

\* lines 439-453: the replacement function reads len(codes)-1 when codes is
\* already complete, at every match.
extractCodeBlocks(text) ==
    LET matches == FindAllStringSubmatch("codeBlock", text)
        codes == [k \in 1..Len(matches) |-> matches[k].group]
        repl == [k \in 1..Len(matches) |-> <<Marker("CB", Len(codes) - 1)>>]
    IN  [text |-> ReplaceFrom(text, matches, repl, 1, 1), codes |-> codes]

\* lines 460-474: as extractCodeBlocks.
extractInlineCodes(text) ==
    LET matches == FindAllStringSubmatch("inlineCode", text)
        codes == [k \in 1..Len(matches) |-> matches[k].group]
        repl == [k \in 1..Len(matches) |-> <<Marker("IC", Len(codes) - 1)>>]
    IN  [text |-> ReplaceFrom(text, matches, repl, 1, 1), codes |-> codes]

\* The value a statement assigns, computed once: the element of a singleton.
The(S) == CHOOSE v \in S : TRUE

RECURSIVE Restore(_, _, _, _, _, _)
\* The loops of lines 421-424 and 426-429, from index i (counted from 0) on.
Restore(text, codes, kind, open, close, i) ==
    IF i >= Len(codes) THEN text
    ELSE The({Restore(replaced, codes, kind, open, close, i + 1) :
                replaced \in {ReplaceAll(text, Marker(kind, i),
                                 <<open>> \o escapeHTML(codes[i + 1]) \o <<close>>)}})

\* lines 400-417, one assignment to text after the other. No message content
\* of the model holds "#", ">", "[" or "-", and none starts with "*" and a
\* space: the patterns of lines 396, 398, 402 and 419 match nowhere in such
\* a text and leave it as it is.
formatText(text) ==
    The({The({The({The({ReplaceAllString("~", italic, "<s>", "</s>") :
        italic \in {ReplaceAllString("italic", bold2, "<i>", "</i>")}}) :
        bold2 \in {ReplaceAllString("_", bold, "<b>", "</b>")}}) :
        bold \in {ReplaceAllString("*", escaped, "<b>", "</b>")}}) :
        escaped \in {escapeHTML(text)}})

\* lines 421-431.
restoreCodes(text, inlineCodes, codeBlocks) ==
    The({Restore(inline, codeBlocks.codes, "CB", "<pre><code>", "</code></pre>", 0) :
        inline \in {Restore(text, inlineCodes.codes, "IC", "<code>", "</code>", 0)}})

\* lines 385-432.
markdownToTelegramHTML(text) ==
    IF text = <<>> THEN <<>>
    ELSE The({The({The({restoreCodes(formatted, inlineCodes, codeBlocks) :
        formatted \in {formatText(inlineCodes.text)}}) :
        inlineCodes \in {extractInlineCodes(codeBlocks.text)}}) :
        codeBlocks \in {extractCodeBlocks(text)}})

\* The message contents of the model: up to MaxPieces pieces, each one plain
\* text, a fenced code block with a language tag, or an inline code span.
Bodies == {<<"a">>, <<"<">>, <<"*", "*", "b", "*", "*">>}

Pieces == [kind : {"plain", "fenced", "inline"}, body : Bodies]

Contents == UNION {[1..n -> Pieces] : n \in 1..MaxPieces}

\* The markdown a piece stands for.
PieceText(p) ==
    CASE p.kind = "fenced" -> Fence \o <<"g", "o", "\n">> \o p.body \o Fence
      [] p.kind = "inline" -> <<Backtick>> \o p.body \o <<Backtick>>
      [] OTHER             -> p.body

RECURSIVE Text(_)
\* msg.Content: the pieces one after the other.
Text(pieces) ==
    IF pieces = <<>> THEN <<>>
    ELSE PieceText(Head(pieces)) \o Text(Tail(pieces))

MarkdownInit ==
    /\ LoopInit
    /\ store = NilCred
    /\ ExchangeIdle
    /\ ProviderIdle
    /\ TelegramIdle
    /\ content \in Contents
    /\ htmlContent = NotConverted

\* Send, line 113: htmlContent := markdownToTelegramHTML(msg.Content).
Convert ==
    /\ ~htmlContent.done
    /\ htmlContent' = [done |-> TRUE,
                       text |-> markdownToTelegramHTML(Text(content))]
    /\ UNCHANGED content
    /\ UNCHANGED <<loopVars, callerVars, exchangeVars, providerVars, telegramVars>>

MarkdownNext == Convert

MarkdownSpec == MarkdownInit /\ [][MarkdownNext]_vars

Spec == Init /\ [][Next]_vars

\* The clock advances, and a select whose deadline channel is ready takes
\* that case sooner or later (Go's select chooses among the ready cases
\* uniformly at random).
FairSpec == Spec /\ WF_vars(Tick) /\ WF_vars(Timeout)

\* ------------------------------------------------------------------------
\* Claims
\* ------------------------------------------------------------------------

\* The token response of the last poll is a success: status 200, JSON, a
\* non-empty access_token.
TokenIssued ==
    /\ lastPoll.req.sent
    /\ lastPoll.tok.transport = "ok"
    /\ lastPoll.tok.statusCode = StatusOK
    /\ lastPoll.tok.json
    /\ lastPoll.tok.access_token # ""

\* C1: once a status poll has observed EXPIRED or CANCELED, the login has
\* returned with an error (so no further status request follows and the
\* deadline is not awaited).
C1_TerminatedGrantFailsLogin ==
    hist.terminated => (pc = "done" /\ result.err # "" /\ result.cred.nil)

\* C2: a status poll that observes AUTHORIZED with an empty code ends the
\* login with the "authorization code missing" error, without a token
\* request.
C2_MissingCodeFailsLogin ==
    (Parsed(lastPoll.resp) /\ lastPoll.resp.status = "AUTHORIZED"
        /\ lastPoll.resp.code = "")
    => (pc = "done" /\ result.err = "code_missing" /\ ~lastPoll.req.sent)

\* C3: the only errors after which the loop is still running are transport
\* and parse errors of the status poll; a failed token exchange ends the
\* login with that error.
C3_ExchangeFailureFailsLogin ==
    /\ (pc = "select" /\ lastPoll.err # "") => IsPollError(lastPoll.resp)
    /\ (lastPoll.req.sent /\ IsExchangeFailure(lastPoll.tok))
       => (pc = "done" /\ result.err = lastPoll.err /\ result.cred.nil)

\* C4: while every poll is answered PENDING or SCANNED, the login goes on
\* to return the timeout error with no credential.
C4_AlwaysPendingTimesOut ==
    (pc = "select" /\ hist.onlyWaiting)
    ~> (\/ ~hist.onlyWaiting
        \/ (pc = "done" /\ result.err = "timeout" /\ result.cred.nil))

\* C4 happens: the login timed out after at least two polls, all of them
\* answered PENDING or SCANNED.
C4_Witness ==
    /\ pc = "done"
    /\ result.err = "timeout"
    /\ hist.onlyWaiting
    /\ polls >= 2

\* C5: no network call of the login is still blocked when the overall
\* deadline has elapsed.
C5_NoCallBlocksPastDeadline == ~(pc = "blocked" /\ DeadlineFired)

\* C6: when the polls were answered PENDING, PENDING, SCANNED, AUTHORIZED
\* with a code and the token endpoint issued a token, the login has returned
\* a qwen oauth credential holding that token, and no error.
C6_StubSequenceSucceeds ==
    (hist.onScript /\ polls = Len(StubSequence) /\ TokenIssued)
    => /\ pc = "done"
       /\ result.err = ""
       /\ ~result.cred.nil
       /\ result.cred.AccessToken = lastPoll.tok.access_token
       /\ result.cred.Provider = "qwen"
       /\ result.cred.AuthMethod = "oauth"

\* C6 happens: the four polls of the scenario were made before the
\* deadline, and the token endpoint issued a token.
C6_Witness ==
    /\ hist.onScript
    /\ polls = Len(StubSequence)
    /\ TokenIssued
    /\ ~DeadlineFired

\* C7: a returned credential never has an empty accessToken, and a token
\* response with status 200 and an empty access_token makes the exchange
\* return an error and no credential.
C7_NoEmptyAccessToken ==
    /\ ~result.cred.nil => result.cred.AccessToken # ""
    /\ (lastPoll.req.sent /\ lastPoll.tok.transport = "ok"
            /\ lastPoll.tok.statusCode = StatusOK /\ lastPoll.tok.json
            /\ lastPoll.tok.access_token = "")
       => (lastPoll.err # "" /\ lastPoll.cred.nil /\ result.cred.nil)

\* C7 happens: the token endpoint answered 200 with an empty access_token.
C7_Witness ==
    /\ lastPoll.req.sent
    /\ lastPoll.tok.transport = "ok"
    /\ lastPoll.tok.statusCode = StatusOK
    /\ lastPoll.tok.json
    /\ lastPoll.tok.access_token = ""

\* C8: the code_challenge of the grant request is the S256 transform of the
\* verifier, as its code_challenge_method says, and not the verifier.
C8_ChallengeIsS256 ==
    grantReq.sent
    => /\ grantReq.code_challenge_method = "S256"
       /\ grantReq.code_challenge = S256(codeVerifier)
       /\ grantReq.code_challenge # codeVerifier

\* C9: a poll that fails in transport or parsing leaves the loop running,
\* the deadline where it was and nothing returned; and while every poll
\* fails so, the login goes on to return the timeout error.
C9_PollErrorsSwallowed ==
    /\ [][(polls' = polls + 1 /\ IsPollError(lastPoll'.resp))
            => (pc' = "select" /\ deadlineAt' = deadlineAt /\ result' = result)]_vars
    /\ (pc = "select" /\ hist.onlyFailing)
       ~> (\/ ~hist.onlyFailing
           \/ (pc = "done" /\ result.err = "timeout" /\ result.cred.nil))

\* C9 happens: the login timed out after at least two polls, all of them
\* failed in transport or parsing.
C9_Witness ==
    /\ pc = "done"
    /\ result.err = "timeout"
    /\ hist.onlyFailing
    /\ polls >= 2
    /\ IsPollError(lastPoll.resp)

\* C10: the loop is entered, and polls are made, only with a grant whose
\* qrCodeId and qrCodeUrl are both non-empty.
C10_GrantHasIdAndUrl ==
    (pc \in {"select", "blocked"} \/ polls > 0)
    => (qr.QrCodeId # "" /\ qr.QrCodeUrl # "")

\* C11: every token request carries the state of the grant request and the
\* verifier whose challenge the grant request carried, and neither state
\* nor verifier changes once the loop is entered.
C11_ExchangeCarriesGrantStateAndVerifier ==
    /\ [](lastPoll.req.sent
            => /\ grantReq.sent
               /\ lastPoll.req.state = grantReq.state
               /\ lastPoll.req.state = state
               /\ lastPoll.req.code_verifier = codeVerifier
               /\ generateCodeChallenge(lastPoll.req.code_verifier)
                    = grantReq.code_challenge)
    /\ [][pc # "init"
            => (state' = state /\ codeVerifier' = codeVerifier
                /\ grantReq' = grantReq)]_vars

\* C11 happens: a token request was sent after an earlier poll.
C11_Witness ==
    /\ lastPoll.req.sent
    /\ polls >= 2
    /\ lastPoll.req.code_verifier \in Verifiers
    /\ lastPoll.req.state \in States

\* C14: once the invocation is cancelled, the loop takes neither the ticker
\* case (a further status poll) nor the deadline case: it stops on the
\* cancellation itself.
C14_CancellationStopsLoop ==
    [][(cancelled /\ pc = "select")
        => /\ polls' = polls
           /\ ~(pc' = "done" /\ result'.err = "timeout")]_vars

\* C17: the stored credential changes only when LoginQwenOAuth saves the
\* credential of a login that returned success; SaveCredential is called
\* once after a success and never after a failure; after a failed login
\* the store holds what it held before.
C17_SavedOnceAfterSuccess ==
    /\ [][store' # store
            => /\ pc = "done"
               /\ result.err = ""
               /\ ~result.cred.nil
               /\ store' = result.cred
               /\ oauth.saves = 0
               /\ oauth'.saves = 1]_vars
    /\ [](~oauth.returned => oauth.saves = 0)
    /\ [](oauth.returned => oauth.saves = (IF result.err = "" THEN 1 ELSE 0))
    /\ []((pc # "done" \/ result.err # "") => store \in {NilCred, OldCred})

\* C17 happens: after at least two polls the login returned a credential,
\* and LoginQwenOAuth stored it in place of the old one.
C17_Witness ==
    /\ oauth.returned
    /\ oauth.err = ""
    /\ oauth.saves = 1
    /\ polls >= 2
    /\ ~store.nil
    /\ store = result.cred
    /\ store # OldCred

\* C18: status polls are made only after the grant request succeeded, and
\* a token request is sent only in a poll whose status response was
\* AUTHORIZED with a non-empty code, with that code.
C18_GrantThenPollThenExchange ==
    /\ polls > 0
        => /\ grantReq.sent
           /\ deadlineAt > 0
           /\ result.err \notin {"state", "code_verifier", "qrcode"}
    /\ result.err \in {"state", "code_verifier", "qrcode"}
        => (polls = 0 /\ ~lastPoll.req.sent)
    /\ lastPoll.req.sent
        => /\ polls > 0
           /\ Parsed(lastPoll.resp)
           /\ lastPoll.resp.status = "AUTHORIZED"
           /\ lastPoll.resp.code # ""
           /\ lastPoll.req.code = lastPoll.resp.code

\* C18 happens: a token request was sent in the third or a later poll.
C18_Witness ==
    /\ grantReq.sent
    /\ polls >= 3
    /\ lastPoll.resp.status = "AUTHORIZED"
    /\ lastPoll.req.sent
    /\ lastPoll.req.code \in Codes

\* C19: when LoginQwenQRCode has returned, it returned a credential or an
\* error and not both; a poll answered with a status other than
\* AUTHORIZED, EXPIRED or CANCELED yields neither, and a poll that yields
\* neither leaves the loop running with nothing returned.
C19_ExactlyOneOfCredOrError ==
    /\ [](pc = "done" => (result.cred.nil <=> result.err # ""))
    /\ [](pc # "done" => result = NoResult)
    /\ []((Parsed(lastPoll.resp)
            /\ lastPoll.resp.status \notin {"AUTHORIZED", "EXPIRED", "CANCELED"})
          => (lastPoll.cred.nil /\ lastPoll.err = ""))
    /\ [][(polls' = polls + 1 /\ lastPoll'.cred.nil /\ lastPoll'.err = ""
            /\ ~lastPoll'.hung)
            => (pc' = "select" /\ result' = result)]_vars

\* C19 happens: a poll was answered with an unknown status and the loop
\* is still running.
C19_Witness ==
    /\ pc = "select"
    /\ polls >= 1
    /\ Parsed(lastPoll.resp)
    /\ lastPoll.resp.status = ""
    /\ result = NoResult

\* The exchange taken alone got a token response that is a success:
\* status 200, JSON, a non-empty access_token.
ExchangeSucceeds ==
    /\ xout.req.sent
    /\ xin.resp.transport = "ok"
    /\ xin.resp.statusCode = StatusOK
    /\ xin.resp.json
    /\ xin.resp.access_token # ""

\* C13: the credential's expiresAt is the clock plus expires_in when
\* expires_in is positive, and the zero time when expires_in is zero,
\* negative or missing.
C13_ExpiresAtFromExpiresIn ==
    ExchangeSucceeds
    => /\ ~xout.cred.nil
       /\ xin.resp.expires_in > 0
            => xout.cred.ExpiresAt = xin.now + xin.resp.expires_in
       /\ xin.resp.expires_in <= 0 => xout.cred.ExpiresAt = 0

\* C13 happens: a credential was built from a response with a positive
\* expires_in, and expires after the reading of the clock.
C13_Witness ==
    /\ ExchangeSucceeds
    /\ ~xout.cred.nil
    /\ xin.resp.expires_in > 0
    /\ xout.cred.ExpiresAt > xin.now

\* The segments of an access token.
Segments(token) == Split(Chars(token), ".")

\* The second segment of the token is the base64url encoding, without
\* padding, of a JSON object with a string "sub".
HasSubPayload(token) ==
    /\ Len(Segments(token)) >= 2
    /\ LET decoded == RawURLEncoding_DecodeString(Segments(token)[2])
           parsed == json_Unmarshal(decoded.bytes)
       IN  /\ ~decoded.err
           /\ ~parsed.err
           /\ parsed.claims.hasSub
           /\ parsed.claims.subIsString

\* The "sub" of a token with HasSubPayload.
SubOf(token) ==
    json_Unmarshal(RawURLEncoding_DecodeString(Segments(token)[2]).bytes).claims.sub

\* A malformed token: fewer than three segments, or a second segment that
\* is no base64url, no JSON object, or has no string "sub".
Malformed(token) == Len(Segments(token)) < 3 \/ ~HasSubPayload(token)

\* C15: a malformed access token gives an empty accountID, no error, and
\* the credential is still returned.
C15_MalformedTokenGivesEmptyAccountID ==
    (ExchangeSucceeds /\ Malformed(xin.resp.access_token))
    => /\ xout.err = ""
       /\ ~xout.cred.nil
       /\ xout.cred.AccountID = ""

\* C16: for a token of three segments whose second segment is the
\* base64url encoding of a JSON object with a string "sub", the accountID
\* is that "sub".
C16_AccountIDIsSub ==
    (/\ ExchangeSucceeds
     /\ Len(Segments(xin.resp.access_token)) = 3
     /\ HasSubPayload(xin.resp.access_token))
    => /\ ~xout.cred.nil
       /\ xout.cred.AccountID = SubOf(xin.resp.access_token)

\* A usable credential: the access token is not empty and expiresAt is
\* absent or strictly in the future.
Usable(cred, now) ==
    /\ ~cred.nil
    /\ cred.AccessToken # ""
    /\ (cred.ExpiresAt = 0 \/ cred.ExpiresAt > now)

C20_ReplyStopsEveryAnimation ==
    \A k \in 1..Len(anims) :
        (anims[k].state # "none" /\ anims[k].replied) => chans[k].closes > 0

\* C21: no stop channel is closed a second time, and no placeholder
\* message is edited into a reply by more than one call of Send.
C21_ClosedOnceConsumedOnce ==
    /\ ~panicked
    /\ \A k \in 1..Len(anims) : anims[k].consumed <= 1

\* The contents of the spans a text holds between the tags open and close,
\* from position i on.
RECURSIVE Spans(_, _, _, _)
Spans(text, open, close, i) ==
    LET o == FirstAt(text, i, <<open>>)
        c == IF o = 0 THEN 0 ELSE FirstAt(text, o + 1, <<close>>)
    IN  IF c = 0 THEN <<>>
        ELSE <<SubSeq(text, o + 1, c - 1)>> \o Spans(text, open, close, c + 1)

\* The escaped bodies of the pieces of one kind, in their order.
EscapedBodies(pieces, kind) ==
    LET of == SelectSeq(pieces, LAMBDA p : p.kind = kind)
    IN  [k \in 1..Len(of) |-> escapeHTML(of[k].body)]

\* Plain text stands between any two code pieces.
Separated(pieces) ==
    \A k \in 1..(Len(pieces) - 1) :
        pieces[k].kind = "plain" \/ pieces[k + 1].kind = "plain"

Markers == {Marker(kind, i) : kind \in {"CB", "IC"}, i \in 0..MaxPieces}

\* C22: in the HTML of a content with fenced code blocks and inline code
\* spans, the i-th <pre><code> block holds the escaped content of the i-th
\* fenced block, the i-th <code> span that of the i-th inline span, and no
\* placeholder marker is left.
C22_CodeRestoredInPlace ==
    (htmlContent.done /\ Separated(content)) =>
        /\ Spans(htmlContent.text, "<pre><code>", "</code></pre>", 1)
               = EscapedBodies(content, "fenced")
        /\ Spans(htmlContent.text, "<code>", "</code>", 1)
               = EscapedBodies(content, "inline")
        /\ \A k \in 1..Len(htmlContent.text) : htmlContent.text[k] \notin Markers

====
